---- MODULE Spec2Model ----
(***************************************************************************)
(* The rental-management frontend as a state machine: the API client       *)
(* (class ApiService, the force-logout slot and the token kept in          *)
(* localStorage) and the App component with its Login and Signup screens.  *)
(* A call of a method is one record of `calls`: it is created by the       *)
(* synchronous part of the method (up to its first await), and settled by  *)
(* the continuation that runs when fetch or the timer completes.           *)
(***************************************************************************)
EXTENDS Integers, Sequences, FiniteSets, TLC

VARIABLES
    localStorage,   \* the browser's localStorage: a function from the stored keys to strings
    forceLogoutFn,  \* the module-level callback slot
    registrations,  \* history: the latest argument of setForceLogout, and the earlier ones
    calls,          \* the method calls made so far, in call order
    currentView,    \* App: the view selected in the navigation
    userRole,       \* App: "admin" or "customer"
    isAuthenticated,\* App
    showSignup,     \* App
    loginForm,      \* the fields of the mounted Login component: email, password
    signupForm,     \* the fields of the mounted Signup component: fullName, email, password
    alerts          \* the text of the last window.alert, "" before the first

appVars == <<currentView, userRole, isAuthenticated, showSignup, loginForm, signupForm,
            alerts>>

clientVars == <<localStorage, forceLogoutFn, registrations, calls>>

vars == <<clientVars, appVars>>

----------------------------------------------------------------------------
(* JavaScript values, tagged by type *)

Undefined == [type |-> "undefined"]

Null == [type |-> "null"]

Str(s) == [type |-> "string", v |-> s]

Num(n) == [type |-> "number", v |-> n]

Bool(b) == [type |-> "boolean", v |-> b]

Obj(f) == [type |-> "object", fields |-> f]

Arr(s) == [type |-> "array", items |-> s]

\* ToBoolean: undefined, null, "", 0 and false are falsy
Truthy(v) ==
    CASE v.type = "undefined" -> FALSE
      [] v.type = "null" -> FALSE
      [] v.type = "string" -> v.v # ""
      [] v.type = "number" -> v.v # 0
      [] v.type = "boolean" -> v.v
      [] OTHER -> TRUE

\* a || b
OrElse(a, b) == IF Truthy(a) THEN a ELSE b

\* data?.name : undefined when data is null or undefined, or has no such property
OptField(data, name) ==
    IF data.type = "object" /\ name \in DOMAIN data.fields
    THEN data.fields[name]
    ELSE Undefined

\* String(v), as new Error(v) applies it to its argument
ToStr(v) ==
    CASE v.type = "string" -> v.v
      [] v.type = "number" -> ToString(v.v)
      [] v.type = "boolean" -> (IF v.v THEN "true" ELSE "false")
      [] v.type = "null" -> "null"
      [] v.type = "undefined" -> "undefined"
      [] OTHER -> "[object Object]"

\* JSON.stringify of a primitive (the sampled strings hold no character that is escaped)
JSONValue(v) ==
    CASE v.type = "string" -> "\"" \o v.v \o "\""
      [] v.type = "number" -> ToString(v.v)
      [] v.type = "boolean" -> (IF v.v THEN "true" ELSE "false")
      [] OTHER -> "null"

RECURSIVE JSONMembers(_, _)
\* the members of an object literal, in property order; undefined properties are left out
JSONMembers(props, first) ==
    IF props = <<>> THEN ""
    ELSE LET p == Head(props) IN
         IF p[2].type = "undefined" THEN JSONMembers(Tail(props), first)
         ELSE (IF first THEN "" ELSE ",") \o "\"" \o p[1] \o "\":" \o JSONValue(p[2])
              \o JSONMembers(Tail(props), FALSE)

\* JSON.stringify of an object given as its properties <<name, value>>, in order
JSONStringify(props) == "{" \o JSONMembers(props, TRUE) \o "}"

----------------------------------------------------------------------------
(* The module-level constants and the storage *)

API_BASE_URL == "http://localhost:5000/api"

AUTH_TOKEN == "auth_token"

\* localStorage.getItem(key): the stored string, or null
GetItem(ls, key) == IF key \in DOMAIN ls THEN Str(ls[key]) ELSE Null

\* localStorage.removeItem(key)
RemoveItem(ls, key) == [k \in DOMAIN ls \ {key} |-> ls[k]]

\* the initial `() => {}` of the slot, and the callbacks a caller may register
NoOp == "noop"

Callbacks == {"cbA", "cbB"}

\* the values something outside the client may have stored under the key
TokenValues == {"", "tokA"}

----------------------------------------------------------------------------
(* ApiService: headers *)

JsonHeaders == ("Content-Type" :> "application/json")

\* the header sent unguarded: `Bearer ${token}` whatever getItem gave
getAuthHeaders_Unguarded(ls) ==
    LET token == GetItem(ls, AUTH_TOKEN) IN
    ("Content-Type" :> "application/json")
        @@ ("Authorization" :> ("Bearer " \o ToStr(token)))

getAuthHeaders(ls) ==
    LET token == GetItem(ls, AUTH_TOKEN) IN
    ("Content-Type" :> "application/json")
        @@ (IF Truthy(token) THEN ("Authorization" :> ("Bearer " \o token.v)) ELSE <<>>)

getAuthHeadersForFormData(ls) ==
    LET token == GetItem(ls, AUTH_TOKEN) IN
    IF Truthy(token) THEN ("Authorization" :> ("Bearer " \o token.v)) ELSE <<>>

\* fetch(url, init): the request put on the wire; the method defaults to GET
Fetch(url, init) ==
    [method  |-> IF "method" \in DOMAIN init THEN init.method ELSE "GET",
     url     |-> url,
     headers |-> IF "headers" \in DOMAIN init THEN init.headers ELSE <<>>,
     body    |-> IF "body" \in DOMAIN init THEN <<init.body>> ELSE <<>>]

----------------------------------------------------------------------------
(* ApiService: the result of the shared response handler *)

Resolved(v) == [kind |-> "resolved", value |-> v]

Rejected(msg) == [kind |-> "rejected", message |-> msg]

Pending == [kind |-> "pending"]

\* a response body: text that response.json() cannot parse, or the JSON value it parses to
UnparseableBody == [parsed |-> FALSE]

JsonBody(j) == [parsed |-> TRUE, json |-> j]

\* response.ok
Ok(status) == status >= 200 /\ status <= 299

\* the handler parsing the body before it looks at the status
handleResponse_ParseFirst(response, ls, fn) ==
    IF ~response.body.parsed
    THEN [outcome |-> Rejected("Invalid response format."),
          storage |-> ls, removes |-> 0, logouts |-> <<>>]
    ELSE IF response.status = 401 \/ response.status = 403
    THEN [outcome |-> Resolved(Undefined),
          storage |-> RemoveItem(ls, AUTH_TOKEN),
          removes |-> 1,
          logouts |-> <<fn>>]
    ELSE LET data == response.body.json IN
         IF ~Ok(response.status)
         THEN [outcome |-> Rejected(ToStr(OrElse(OrElse(OptField(data, "message"),
                                                         OptField(data, "error")),
                                                  Str("Unexpected error")))),
               storage |-> ls, removes |-> 0, logouts |-> <<>>]
         ELSE [outcome |-> Resolved(data),
               storage |-> ls, removes |-> 0, logouts |-> <<>>]

\* the handler throwing after the teardown instead of returning
handleResponse_ThrowsOnAuthFailure(response, ls, fn) ==
    IF response.status = 401 \/ response.status = 403
    THEN [outcome |-> Rejected("Unauthorized"),
          storage |-> RemoveItem(ls, AUTH_TOKEN),
          removes |-> 1,
          logouts |-> <<fn>>]
    ELSE IF ~response.body.parsed
    THEN [outcome |-> Rejected("Invalid response format."),
          storage |-> ls, removes |-> 0, logouts |-> <<>>]
    ELSE LET data == response.body.json IN
         IF ~Ok(response.status)
         THEN [outcome |-> Rejected(ToStr(OrElse(OrElse(OptField(data, "message"),
                                                         OptField(data, "error")),
                                                  Str("Unexpected error")))),
               storage |-> ls, removes |-> 0, logouts |-> <<>>]
         ELSE [outcome |-> Resolved(data),
               storage |-> ls, removes |-> 0, logouts |-> <<>>]

\* the handler taking the error text from the first of the two fields that is present,
\* empty or not (`??` where the code has `||`)
handleResponse_NullishMessage(response, ls, fn) ==
    IF response.status = 401 \/ response.status = 403
    THEN [outcome |-> Resolved(Undefined),
          storage |-> RemoveItem(ls, AUTH_TOKEN),
          removes |-> 1,
          logouts |-> <<fn>>]
    ELSE IF ~response.body.parsed
    THEN [outcome |-> Rejected("Invalid response format."),
          storage |-> ls, removes |-> 0, logouts |-> <<>>]
    ELSE LET data == response.body.json
             message == OptField(data, "message")
             error == OptField(data, "error")
         IN
         IF ~Ok(response.status)
         THEN [outcome |-> Rejected(ToStr(IF message # Undefined THEN message
                                          ELSE IF error # Undefined THEN error
                                          ELSE Str("Unexpected error"))),
               storage |-> ls, removes |-> 0, logouts |-> <<>>]
         ELSE [outcome |-> Resolved(data),
               storage |-> ls, removes |-> 0, logouts |-> <<>>]

\* the handler with an empty catch: a body that does not parse leaves data undefined
handleResponse_IgnoresParseFailure(response, ls, fn) ==
    IF response.status = 401 \/ response.status = 403
    THEN [outcome |-> Resolved(Undefined),
          storage |-> RemoveItem(ls, AUTH_TOKEN),
          removes |-> 1,
          logouts |-> <<fn>>]
    ELSE LET data == IF response.body.parsed THEN response.body.json ELSE Undefined IN
         IF ~Ok(response.status)
         THEN [outcome |-> Rejected(ToStr(OrElse(OrElse(OptField(data, "message"),
                                                         OptField(data, "error")),
                                                  Str("Unexpected error")))),
               storage |-> ls, removes |-> 0, logouts |-> <<>>]
         ELSE [outcome |-> Resolved(data),
               storage |-> ls, removes |-> 0, logouts |-> <<>>]

\* a handleResponse that keeps, as the token, what a successful response carries
handleResponse_StoresToken(response, ls, fn) ==
    IF response.status = 401 \/ response.status = 403
    THEN [outcome |-> Resolved(Undefined),
          storage |-> RemoveItem(ls, AUTH_TOKEN),
          removes |-> 1,
          logouts |-> <<fn>>]
    ELSE IF ~response.body.parsed
    THEN [outcome |-> Rejected("Invalid response format."),
          storage |-> ls, removes |-> 0, logouts |-> <<>>]
    ELSE LET data == response.body.json IN
         IF ~Ok(response.status)
         THEN [outcome |-> Rejected(ToStr(OrElse(OrElse(OptField(data, "message"),
                                                         OptField(data, "error")),
                                                  Str("Unexpected error")))),
               storage |-> ls, removes |-> 0, logouts |-> <<>>]
         ELSE [outcome |-> Resolved(data),
               storage |-> (AUTH_TOKEN :> ToStr(OrElse(OptField(data, "message"),
                                                       Str("tokA")))),
               removes |-> 0, logouts |-> <<>>]

\* a handleResponse that logs out only while a token is still stored
handleResponse_OncePerSession(response, ls, fn) ==
    IF response.status = 401 \/ response.status = 403
    THEN [outcome |-> Resolved(Undefined),
          storage |-> RemoveItem(ls, AUTH_TOKEN),
          removes |-> 1,
          logouts |-> IF AUTH_TOKEN \in DOMAIN ls THEN <<fn>> ELSE <<>>]
    ELSE IF ~response.body.parsed
    THEN [outcome |-> Rejected("Invalid response format."),
          storage |-> ls, removes |-> 0, logouts |-> <<>>]
    ELSE LET data == response.body.json IN
         IF ~Ok(response.status)
         THEN [outcome |-> Rejected(ToStr(OrElse(OrElse(OptField(data, "message"),
                                                         OptField(data, "error")),
                                                  Str("Unexpected error")))),
               storage |-> ls, removes |-> 0, logouts |-> <<>>]
         ELSE [outcome |-> Resolved(data),
               storage |-> ls, removes |-> 0, logouts |-> <<>>]

\* handleResponse(response), run with the storage ls and the slot holding fn: the
\* settlement of the returned promise, the storage afterwards, the removeItem calls made
\* and the callbacks invoked, in order
handleResponse(response, ls, fn) ==
    IF response.status = 401 \/ response.status = 403
    THEN [outcome |-> Resolved(Undefined),
          storage |-> RemoveItem(ls, AUTH_TOKEN),
          removes |-> 1,
          logouts |-> <<fn>>]
    ELSE IF ~response.body.parsed
    THEN [outcome |-> Rejected("Invalid response format."),
          storage |-> ls, removes |-> 0, logouts |-> <<>>]
    ELSE LET data == response.body.json IN
         IF ~Ok(response.status)
         THEN [outcome |-> Rejected(ToStr(OrElse(OrElse(OptField(data, "message"),
                                                         OptField(data, "error")),
                                                  Str("Unexpected error")))),
               storage |-> ls, removes |-> 0, logouts |-> <<>>]
         ELSE [outcome |-> Resolved(data),
               storage |-> ls, removes |-> 0, logouts |-> <<>>]

----------------------------------------------------------------------------
(* ApiService: the request each method hands to fetch.  Every operator takes the   *)
(* method's arguments a and the storage ls at the time of the call, and gives the  *)
(* url, the init object and the number of localStorage.getItem calls it makes.     *)

\* encodeURIComponent on the sampled strings: "@" is escaped, letters and "." are kept
encodeURIComponent(s) ==
    CASE s = "a@b.co" -> "a%40b.co"
      [] s = "admin@b.co" -> "admin%40b.co"
      [] OTHER -> s

generateOTP(a, ls) ==
    [url |-> API_BASE_URL \o "/auth/generate-otp",
     init |-> [method |-> "POST", headers |-> JsonHeaders,
               body |-> JSONStringify(<< <<"email", Str(a.email)>> >>)],
     reads |-> 0]

verifyOTP(a, ls) ==
    [url |-> API_BASE_URL \o "/auth/verify-otp",
     init |-> [method |-> "POST", headers |-> JsonHeaders, body |-> JSONStringify(a.data)],
     reads |-> 0]

signup(a, ls) ==
    [url |-> API_BASE_URL \o "/auth/signup",
     init |-> [method |-> "POST", headers |-> JsonHeaders, body |-> JSONStringify(a.data)],
     reads |-> 0]

signin(a, ls) ==
    [url |-> API_BASE_URL \o "/auth/signin",
     init |-> [method |-> "POST", headers |-> JsonHeaders, body |-> JSONStringify(a.data)],
     reads |-> 0]

\* getCurrentUser past its no-token return: one getItem of its own, one in getAuthHeaders
getCurrentUser(a, ls) ==
    [url |-> API_BASE_URL \o "/auth/me",
     init |-> [method |-> "GET", headers |-> getAuthHeaders(ls)],
     reads |-> 2]

updateProfile(a, ls) ==
    [url |-> API_BASE_URL \o "/auth/update-profile",
     init |-> [method |-> "PUT", headers |-> getAuthHeaders(ls), body |-> JSONStringify(a.data)],
     reads |-> 1]

checkAdmin(a, ls) ==
    [url |-> API_BASE_URL \o "/auth/check-admin",
     init |-> [headers |-> JsonHeaders],
     reads |-> 0]

checkUser(a, ls) ==
    [url |-> API_BASE_URL \o "/auth/check-user?email=" \o encodeURIComponent(a.email),
     init |-> [headers |-> JsonHeaders],
     reads |-> 0]

getAllUsers(a, ls) ==
    [url |-> API_BASE_URL \o "/auth/users",
     init |-> [headers |-> getAuthHeaders(ls)],
     reads |-> 1]

deleteUser(a, ls) ==
    [url |-> API_BASE_URL \o "/auth/user",
     init |-> [method |-> "DELETE", headers |-> getAuthHeaders(ls),
               body |-> JSONStringify(<< <<"userId", Str(a.userId)>> >>)],
     reads |-> 1]

getDashboard(a, ls) ==
    [url |-> API_BASE_URL \o "/admin/dashboard",
     init |-> [headers |-> getAuthHeaders(ls)],
     reads |-> 1]

impersonateUser(a, ls) ==
    [url |-> API_BASE_URL \o "/admin/impersonate/" \o a.userId,
     init |-> [method |-> "POST", headers |-> getAuthHeaders(ls)],
     reads |-> 1]

\* new URLSearchParams() with skip and take appended when truthy, as `${queryParams}`
ProductQuery(params) ==
    LET skip == OptField(params, "skip")
        take == OptField(params, "take")
        s == IF Truthy(skip) THEN "skip=" \o ToStr(skip) ELSE ""
        t == IF Truthy(take) THEN "take=" \o ToStr(take) ELSE ""
    IN  IF s # "" /\ t # "" THEN s \o "&" \o t ELSE s \o t

getAllProducts(a, ls) ==
    [url |-> API_BASE_URL \o "/product?" \o ProductQuery(a.params),
     init |-> [headers |-> getAuthHeaders(ls)],
     reads |-> 1]

getProductById(a, ls) ==
    [url |-> API_BASE_URL \o "/product/" \o a.id,
     init |-> [headers |-> getAuthHeaders(ls)],
     reads |-> 1]

createProduct(a, ls) ==
    [url |-> API_BASE_URL \o "/product",
     init |-> [method |-> "POST", headers |-> getAuthHeaders(ls), body |-> JSONStringify(a.data)],
     reads |-> 1]

updateProduct(a, ls) ==
    [url |-> API_BASE_URL \o "/product/" \o a.id,
     init |-> [method |-> "PUT", headers |-> getAuthHeaders(ls), body |-> JSONStringify(a.data)],
     reads |-> 1]

deleteProduct(a, ls) ==
    [url |-> API_BASE_URL \o "/product/" \o a.id,
     init |-> [method |-> "DELETE", headers |-> getAuthHeaders(ls)],
     reads |-> 1]

addProductDuration(a, ls) ==
    [url |-> API_BASE_URL \o "/product/" \o a.id \o "/duration",
     init |-> [method |-> "POST", headers |-> getAuthHeaders(ls), body |-> JSONStringify(a.data)],
     reads |-> 1]

addProductAvailability(a, ls) ==
    [url |-> API_BASE_URL \o "/product/" \o a.id \o "/availability",
     init |-> [method |-> "POST", headers |-> getAuthHeaders(ls), body |-> JSONStringify(a.data)],
     reads |-> 1]

updateProductAvailability(a, ls) ==
    [url |-> API_BASE_URL \o "/product/availability/" \o a.id,
     init |-> [method |-> "PUT", headers |-> getAuthHeaders(ls), body |-> JSONStringify(a.data)],
     reads |-> 1]

deleteProductAvailability(a, ls) ==
    [url |-> API_BASE_URL \o "/product/availability/" \o a.id,
     init |-> [method |-> "DELETE", headers |-> getAuthHeaders(ls)],
     reads |-> 1]

createRental(a, ls) ==
    [url |-> API_BASE_URL \o "/rental",
     init |-> [method |-> "POST", headers |-> getAuthHeaders(ls), body |-> JSONStringify(a.data)],
     reads |-> 1]

getAllRentals(a, ls) ==
    [url |-> API_BASE_URL \o "/rental",
     init |-> [headers |-> getAuthHeaders(ls)],
     reads |-> 1]

getMyRentals(a, ls) ==
    [url |-> API_BASE_URL \o "/rental/my",
     init |-> [headers |-> getAuthHeaders(ls)],
     reads |-> 1]

updateRentalStatus(a, ls) ==
    [url |-> API_BASE_URL \o "/rental/" \o a.id \o "/status",
     init |-> [method |-> "PUT", headers |-> getAuthHeaders(ls),
               body |-> JSONStringify(<< <<"status", a.status>> >>)],
     reads |-> 1]

deleteRental(a, ls) ==
    [url |-> API_BASE_URL \o "/rental/" \o a.id,
     init |-> [method |-> "DELETE", headers |-> getAuthHeaders(ls)],
     reads |-> 1]

createQuotation(a, ls) ==
    [url |-> API_BASE_URL \o "/quotation",
     init |-> [method |-> "POST", headers |-> getAuthHeaders(ls), body |-> JSONStringify(a.data)],
     reads |-> 1]

acceptQuotation(a, ls) ==
    [url |-> API_BASE_URL \o "/quotation/" \o a.id \o "/accept",
     init |-> [method |-> "POST", headers |-> getAuthHeaders(ls)],
     reads |-> 1]

getAllQuotations(a, ls) ==
    [url |-> API_BASE_URL \o "/quotation",
     init |-> [headers |-> getAuthHeaders(ls)],
     reads |-> 1]

getMyQuotations(a, ls) ==
    [url |-> API_BASE_URL \o "/quotation/my",
     init |-> [headers |-> getAuthHeaders(ls)],
     reads |-> 1]

deleteQuotation(a, ls) ==
    [url |-> API_BASE_URL \o "/quotation/" \o a.id,
     init |-> [method |-> "DELETE", headers |-> getAuthHeaders(ls)],
     reads |-> 1]

createInvoice(a, ls) ==
    [url |-> API_BASE_URL \o "/invoice",
     init |-> [method |-> "POST", headers |-> getAuthHeaders(ls), body |-> JSONStringify(a.data)],
     reads |-> 1]

getAllInvoices(a, ls) ==
    [url |-> API_BASE_URL \o "/invoice",
     init |-> [headers |-> getAuthHeaders(ls)],
     reads |-> 1]

getInvoiceById(a, ls) ==
    [url |-> API_BASE_URL \o "/invoice/" \o a.id,
     init |-> [headers |-> getAuthHeaders(ls)],
     reads |-> 1]

updateInvoiceStatus(a, ls) ==
    [url |-> API_BASE_URL \o "/invoice/" \o a.id \o "/status",
     init |-> [method |-> "PUT", headers |-> getAuthHeaders(ls),
               body |-> JSONStringify(<< <<"status", a.status>> >>)],
     reads |-> 1]

deleteInvoice(a, ls) ==
    [url |-> API_BASE_URL \o "/invoice/" \o a.id,
     init |-> [method |-> "DELETE", headers |-> getAuthHeaders(ls)],
     reads |-> 1]

createPayment(a, ls) ==
    [url |-> API_BASE_URL \o "/payment",
     init |-> [method |-> "POST", headers |-> getAuthHeaders(ls), body |-> JSONStringify(a.data)],
     reads |-> 1]

getMyPayments(a, ls) ==
    [url |-> API_BASE_URL \o "/payment/my",
     init |-> [headers |-> getAuthHeaders(ls)],
     reads |-> 1]

getAllPayments(a, ls) ==
    [url |-> API_BASE_URL \o "/payment",
     init |-> [headers |-> getAuthHeaders(ls)],
     reads |-> 1]

\* the status sent bare: JSON.stringify(status)
updatePaymentStatus_BareStatus(a, ls) ==
    [url |-> API_BASE_URL \o "/payment/" \o a.id \o "/status",
     init |-> [method |-> "PUT", headers |-> getAuthHeaders(ls), body |-> JSONValue(a.status)],
     reads |-> 1]

updatePaymentStatus(a, ls) ==
    [url |-> API_BASE_URL \o "/payment/" \o a.id \o "/status",
     init |-> [method |-> "PUT", headers |-> getAuthHeaders(ls),
               body |-> JSONStringify(<< <<"status", a.status>> >>)],
     reads |-> 1]

deletePayment(a, ls) ==
    [url |-> API_BASE_URL \o "/payment/" \o a.id,
     init |-> [method |-> "DELETE", headers |-> getAuthHeaders(ls)],
     reads |-> 1]

createNotification(a, ls) ==
    [url |-> API_BASE_URL \o "/notification",
     init |-> [method |-> "POST", headers |-> getAuthHeaders(ls), body |-> JSONStringify(a.data)],
     reads |-> 1]

getMyNotifications(a, ls) ==
    [url |-> API_BASE_URL \o "/notification",
     init |-> [headers |-> getAuthHeaders(ls)],
     reads |-> 1]

\* isRead defaults to true when the argument is undefined
markNotificationAsRead(a, ls) ==
    LET isRead == IF a.isRead.type = "undefined" THEN Bool(TRUE) ELSE a.isRead IN
    [url |-> API_BASE_URL \o "/notification/" \o a.id \o "/read",
     init |-> [method |-> "PUT", headers |-> getAuthHeaders(ls),
               body |-> JSONStringify(<< <<"isRead", isRead>> >>)],
     reads |-> 1]

deleteNotification(a, ls) ==
    [url |-> API_BASE_URL \o "/notification/" \o a.id,
     init |-> [method |-> "DELETE", headers |-> getAuthHeaders(ls)],
     reads |-> 1]

createPickup(a, ls) ==
    [url |-> API_BASE_URL \o "/pickup",
     init |-> [method |-> "POST", headers |-> getAuthHeaders(ls), body |-> JSONStringify(a.data)],
     reads |-> 1]

completePickup(a, ls) ==
    [url |-> API_BASE_URL \o "/pickup/" \o a.id \o "/complete",
     init |-> [method |-> "PUT", headers |-> getAuthHeaders(ls)],
     reads |-> 1]

getAllPickups(a, ls) ==
    [url |-> API_BASE_URL \o "/pickup",
     init |-> [headers |-> getAuthHeaders(ls)],
     reads |-> 1]

getMyPickups(a, ls) ==
    [url |-> API_BASE_URL \o "/pickup/my",
     init |-> [headers |-> getAuthHeaders(ls)],
     reads |-> 1]

deletePickup(a, ls) ==
    [url |-> API_BASE_URL \o "/pickup/" \o a.id,
     init |-> [method |-> "DELETE", headers |-> getAuthHeaders(ls)],
     reads |-> 1]

createRentalReturn(a, ls) ==
    [url |-> API_BASE_URL \o "/rental-return",
     init |-> [method |-> "POST", headers |-> getAuthHeaders(ls), body |-> JSONStringify(a.data)],
     reads |-> 1]

completeRentalReturn(a, ls) ==
    [url |-> API_BASE_URL \o "/rental-return/" \o a.id \o "/complete",
     init |-> [method |-> "PUT", headers |-> getAuthHeaders(ls)],
     reads |-> 1]

getAllRentalReturns(a, ls) ==
    [url |-> API_BASE_URL \o "/rental-return",
     init |-> [headers |-> getAuthHeaders(ls)],
     reads |-> 1]

getMyRentalReturns(a, ls) ==
    [url |-> API_BASE_URL \o "/rental-return/my",
     init |-> [headers |-> getAuthHeaders(ls)],
     reads |-> 1]

updateRentalReturn(a, ls) ==
    [url |-> API_BASE_URL \o "/rental-return/" \o a.id,
     init |-> [method |-> "PUT", headers |-> getAuthHeaders(ls), body |-> JSONStringify(a.data)],
     reads |-> 1]

deleteRentalReturn(a, ls) ==
    [url |-> API_BASE_URL \o "/rental-return/" \o a.id,
     init |-> [method |-> "DELETE", headers |-> getAuthHeaders(ls)],
     reads |-> 1]

----------------------------------------------------------------------------
(* ApiService: the demo methods, which contact nothing *)

\* Math.random() in thousandths: 0.1 is the threshold of processPayment
Randoms == {0, 100, 101, 500}

\* the draws offered to the report generator
ReportRandoms == {0, 999}

\* `${Date.now()}` at the sampled instants
Timestamps == {"1730000000000", "1730000002000"}

\* Math.random().toString(36).substr(2, 9) for the sampled draws
RandomSuffix(r) ==
    CASE r = 0 -> ""
      [] r = 100 -> "3llllllll"
      [] r = 101 -> "3mw97rxp2"
      [] r = 500 -> "i"

\* the identifier built from the whole of toString(36), "0." included
processPayment_NoSubstr(r1, now, r2) ==
    LET isSuccess == r1 > 100 IN
    IF isSuccess
    THEN Resolved(Obj([success |-> Bool(TRUE),
                       transactionId |-> Str("TXN_" \o now \o "_0." \o RandomSuffix(r2)),
                       message |-> Str("Payment processed successfully")]))
    ELSE Rejected("Payment failed. Please try again.")

\* processPayment once its 2000 ms timer has fired, with the draw r1, the instant now
\* and the draw r2 of the identifier
processPayment(r1, now, r2) ==
    LET isSuccess == r1 > 100 IN
    IF isSuccess
    THEN Resolved(Obj([success |-> Bool(TRUE),
                       transactionId |-> Str("TXN_" \o now \o "_" \o RandomSuffix(r2)),
                       message |-> Str("Payment processed successfully")]))
    ELSE Rejected("Payment failed. Please try again.")

\* the length of a day; getTime() is counted in hours here, where the code counts
\* milliseconds (1000 * 60 * 60 * 24), so that the sampled instants fit an integer
HoursPerDay == 24

\* an invalid Date's getTime()
NaN == [type |-> "NaN"]

\* new Date(s).getTime(), in hours since 2024-01-01T00:00Z
GetTime(s) ==
    CASE s = "2024-01-01" -> Num(0)
      [] s = "2024-01-02T12:00Z" -> Num(36)
      [] OTHER -> NaN

\* new Date(t).toISOString().split('T')[0]
IsoDate(t) ==
    CASE t \div HoursPerDay = 0 -> "2024-01-01"
      [] t \div HoursPerDay = 1 -> "2024-01-02"
      [] t \div HoursPerDay = 2 -> "2024-01-03"
      [] OTHER -> "2024-01-04"

\* Math.ceil(n / d) for d > 0
Ceil(n, d) == -((-n) \div d)

\* the `days` of getRevenue: NaN when either date is invalid
RevenueDays(a) ==
    LET s == GetTime(a.startDate)
        e == GetTime(a.endDate)
    IN  IF s = NaN \/ e = NaN THEN NaN ELSE Num(Ceil(e.v - s.v, HoursPerDay))

\* ToLength, as Array.from({ length }) applies it: NaN and negatives give 0
ToLength(n) == IF n = NaN THEN 0 ELSE IF n.v < 0 THEN 0 ELSE n.v

\* the dates formatted before the days are counted: toISOString throws on an invalid Date
getRevenue_FormatsFirst(a, draws) ==
    IF GetTime(a.startDate) = NaN
    THEN Rejected("Invalid time value")
    ELSE LET days == ToLength(RevenueDays(a))
             item(i) == Obj([date |-> Str(IsoDate(GetTime(a.startDate).v + i * HoursPerDay)),
                             revenue |-> Num(((draws[2 * i + 1] * 5000) \div 1000) + 1000),
                             rentals |-> Num(((draws[2 * i + 2] * 20) \div 1000) + 5)])
         IN  Resolved(Obj([data |-> Arr([i \in 1..days |-> item(i - 1)])]))

\* getRevenue once its 500 ms timer has fired; draws[2i+1] and draws[2i+2] are the two
\* Math.random() values of item i
getRevenue(a, draws) ==
    LET days == ToLength(RevenueDays(a))
        item(i) == Obj([date |-> Str(IsoDate(GetTime(a.startDate).v + i * HoursPerDay)),
                        revenue |-> Num(((draws[2 * i + 1] * 5000) \div 1000) + 1000),
                        rentals |-> Num(((draws[2 * i + 2] * 20) \div 1000) + 5)])
    IN  Resolved(Obj([data |-> Arr([i \in 1..days |-> item(i - 1)])]))

StatusCount(status, count) == Obj([status |-> Str(status), count |-> Num(count)])

getRentalStatus ==
    Resolved(Obj([data |-> Arr(<<StatusCount("CONFIRMED", 25),
                                 StatusCount("PICKUP_SCHEDULED", 15),
                                 StatusCount("PICKED_UP", 30),
                                 StatusCount("RETURNED", 40),
                                 StatusCount("COMPLETED", 80)>>)]))

TopProduct(name, revenue, rentals) ==
    Obj([productName |-> Str(name), totalRevenue |-> Num(revenue), totalRentals |-> Num(rentals)])

getTopProducts ==
    Resolved(Obj([data |-> Arr(<<TopProduct("Canon EOS R5", 25000, 45),
                                 TopProduct("MacBook Pro 16\"", 18000, 32),
                                 TopProduct("Sony A7 III", 15000, 38),
                                 TopProduct("DJI Mavic Air 2", 12000, 28),
                                 TopProduct("Nikon D850", 10000, 22)>>)]))

----------------------------------------------------------------------------
(* The methods of the class, and the arguments offered to each *)

\* the methods that end in `return this.handleResponse(response)`
FetchMethods == {
    "generateOTP", "verifyOTP", "signup", "signin",
    "getCurrentUser", "updateProfile", "checkAdmin", "checkUser",
    "getAllUsers", "deleteUser", "getDashboard", "impersonateUser",
    "getAllProducts", "getProductById", "createProduct", "updateProduct",
    "deleteProduct", "addProductDuration", "addProductAvailability", "updateProductAvailability",
    "deleteProductAvailability", "createRental", "getAllRentals", "getMyRentals",
    "updateRentalStatus", "deleteRental", "createQuotation", "acceptQuotation",
    "getAllQuotations", "getMyQuotations", "deleteQuotation", "createInvoice",
    "getAllInvoices", "getInvoiceById", "updateInvoiceStatus", "deleteInvoice",
    "createPayment", "getMyPayments", "getAllPayments", "updatePaymentStatus",
    "deletePayment", "createNotification", "getMyNotifications", "markNotificationAsRead",
    "deleteNotification", "createPickup", "completePickup", "getAllPickups",
    "getMyPickups", "deletePickup", "createRentalReturn", "completeRentalReturn",
    "getAllRentalReturns", "getMyRentalReturns", "updateRentalReturn", "deleteRentalReturn"}

MockMethods == {"processPayment", "getRevenue", "getRentalStatus", "getTopProducts"}

ApiMethods == FetchMethods \cup MockMethods

RequestOf(m, a, ls) ==
    CASE m = "generateOTP" -> generateOTP(a, ls)
      [] m = "verifyOTP" -> verifyOTP(a, ls)
      [] m = "signup" -> signup(a, ls)
      [] m = "signin" -> signin(a, ls)
      [] m = "getCurrentUser" -> getCurrentUser(a, ls)
      [] m = "updateProfile" -> updateProfile(a, ls)
      [] m = "checkAdmin" -> checkAdmin(a, ls)
      [] m = "checkUser" -> checkUser(a, ls)
      [] m = "getAllUsers" -> getAllUsers(a, ls)
      [] m = "deleteUser" -> deleteUser(a, ls)
      [] m = "getDashboard" -> getDashboard(a, ls)
      [] m = "impersonateUser" -> impersonateUser(a, ls)
      [] m = "getAllProducts" -> getAllProducts(a, ls)
      [] m = "getProductById" -> getProductById(a, ls)
      [] m = "createProduct" -> createProduct(a, ls)
      [] m = "updateProduct" -> updateProduct(a, ls)
      [] m = "deleteProduct" -> deleteProduct(a, ls)
      [] m = "addProductDuration" -> addProductDuration(a, ls)
      [] m = "addProductAvailability" -> addProductAvailability(a, ls)
      [] m = "updateProductAvailability" -> updateProductAvailability(a, ls)
      [] m = "deleteProductAvailability" -> deleteProductAvailability(a, ls)
      [] m = "createRental" -> createRental(a, ls)
      [] m = "getAllRentals" -> getAllRentals(a, ls)
      [] m = "getMyRentals" -> getMyRentals(a, ls)
      [] m = "updateRentalStatus" -> updateRentalStatus(a, ls)
      [] m = "deleteRental" -> deleteRental(a, ls)
      [] m = "createQuotation" -> createQuotation(a, ls)
      [] m = "acceptQuotation" -> acceptQuotation(a, ls)
      [] m = "getAllQuotations" -> getAllQuotations(a, ls)
      [] m = "getMyQuotations" -> getMyQuotations(a, ls)
      [] m = "deleteQuotation" -> deleteQuotation(a, ls)
      [] m = "createInvoice" -> createInvoice(a, ls)
      [] m = "getAllInvoices" -> getAllInvoices(a, ls)
      [] m = "getInvoiceById" -> getInvoiceById(a, ls)
      [] m = "updateInvoiceStatus" -> updateInvoiceStatus(a, ls)
      [] m = "deleteInvoice" -> deleteInvoice(a, ls)
      [] m = "createPayment" -> createPayment(a, ls)
      [] m = "getMyPayments" -> getMyPayments(a, ls)
      [] m = "getAllPayments" -> getAllPayments(a, ls)
      [] m = "updatePaymentStatus" -> updatePaymentStatus(a, ls)
      [] m = "deletePayment" -> deletePayment(a, ls)
      [] m = "createNotification" -> createNotification(a, ls)
      [] m = "getMyNotifications" -> getMyNotifications(a, ls)
      [] m = "markNotificationAsRead" -> markNotificationAsRead(a, ls)
      [] m = "deleteNotification" -> deleteNotification(a, ls)
      [] m = "createPickup" -> createPickup(a, ls)
      [] m = "completePickup" -> completePickup(a, ls)
      [] m = "getAllPickups" -> getAllPickups(a, ls)
      [] m = "getMyPickups" -> getMyPickups(a, ls)
      [] m = "deletePickup" -> deletePickup(a, ls)
      [] m = "createRentalReturn" -> createRentalReturn(a, ls)
      [] m = "completeRentalReturn" -> completeRentalReturn(a, ls)
      [] m = "getAllRentalReturns" -> getAllRentalReturns(a, ls)
      [] m = "getMyRentalReturns" -> getMyRentalReturns(a, ls)
      [] m = "updateRentalReturn" -> updateRentalReturn(a, ls)
      [] m = "deleteRentalReturn" -> deleteRentalReturn(a, ls)

\* one object passed as `data`: its properties in order, one of them undefined
SampleData == << <<"name", Str("n1")>>, <<"phone", Undefined>>, <<"price", Num(10)>> >>

\* the ranges offered to getRevenue: a day and a half, an empty one, a reversed one and
\* one with an invalid date
RevenueRanges ==
    { [startDate |-> "2024-01-01", endDate |-> "2024-01-02T12:00Z"],
      [startDate |-> "2024-01-01", endDate |-> "2024-01-01"],
      [startDate |-> "2024-01-02T12:00Z", endDate |-> "2024-01-01"],
      [startDate |-> "soon", endDate |-> "2024-01-01"] }

Ids == {"r1"}

\* the identifiers and status values offered to the status updates; "SHIPPED" is in none
\* of RentalStatus, InvoiceStatus, PaymentStatus
StatusIds == {"r1", "r2"}

StatusValues == {"CONFIRMED", "PAID", "SHIPPED"}

ArgsOf(m) ==
    CASE m \in {"generateOTP", "checkUser"} -> {[email |-> e] : e \in {"a@b.co"}}
      [] m \in {"verifyOTP", "signup", "signin", "updateProfile", "createProduct",
                "createRental", "createQuotation", "createInvoice", "createPayment",
                "createNotification", "createPickup", "createRentalReturn"} ->
            {[data |-> SampleData]}
      [] m \in {"updateProduct", "addProductDuration", "addProductAvailability",
                "updateProductAvailability", "updateRentalReturn"} ->
            {[id |-> i, data |-> SampleData] : i \in Ids}
      [] m \in {"deleteUser", "impersonateUser"} -> {[userId |-> i] : i \in Ids}
      [] m = "getAllProducts" ->
            {[params |-> p] : p \in {Undefined,
                                     Obj([skip |-> Num(0), take |-> Num(10)]),
                                     Obj([skip |-> Num(5), take |-> Num(10)])}}
      [] m \in {"updateRentalStatus", "updateInvoiceStatus", "updatePaymentStatus"} ->
            {[id |-> i, status |-> Str(s)] : i \in StatusIds, s \in StatusValues}
      [] m = "markNotificationAsRead" ->
            {[id |-> i, isRead |-> r] : i \in Ids, r \in {Undefined, Bool(FALSE)}}
      [] m \in {"getProductById", "deleteProduct", "deleteProductAvailability",
                "deleteRental", "acceptQuotation", "deleteQuotation", "getInvoiceById",
                "deleteInvoice", "deletePayment", "deleteNotification", "completePickup",
                "deletePickup", "completeRentalReturn", "deleteRentalReturn"} ->
            {[id |-> i] : i \in Ids}
      [] m = "processPayment" -> {[amount |-> 100, method |-> "CARD"]}
      [] m = "getRevenue" -> RevenueRanges
      [] OTHER -> {<<>>}

----------------------------------------------------------------------------
(* The calls *)

NoResponse == [kind |-> "none"]

HttpResponse(status, body) == [kind |-> "http", status |-> status, body |-> body]

NetworkError(msg) == [kind |-> "error", message |-> msg]

\* a getCurrentUser that fetches whether or not a token is stored
NewCall_AlwaysFetches(m, a, ls) ==
    LET base == [method |-> m, args |-> a, pc |-> "fetch", requests |-> <<>>, reads |-> 0,
                 removes |-> 0, logouts |-> <<>>, response |-> NoResponse,
                 outcome |-> Pending]
    IN  IF m \in MockMethods
        THEN [base EXCEPT !.pc = "timer"]
        ELSE LET r == RequestOf(m, a, ls) IN
             [base EXCEPT !.requests = <<Fetch(r.url, r.init)>>, !.reads = r.reads]

\* the record of a call at the point where the method first awaits (or returns)
NewCall(m, a, ls) ==
    LET base == [method |-> m, args |-> a, pc |-> "fetch", requests |-> <<>>, reads |-> 0,
                 removes |-> 0, logouts |-> <<>>, response |-> NoResponse,
                 outcome |-> Pending]
    IN  IF m \in MockMethods
        THEN [base EXCEPT !.pc = "timer"]
        ELSE IF m = "getCurrentUser" /\ ~Truthy(GetItem(ls, AUTH_TOKEN))
        THEN [base EXCEPT !.pc = "settled", !.reads = 1,
                          !.outcome = Resolved(Obj([user |-> Null]))]
        ELSE LET r == RequestOf(m, a, ls) IN
             [base EXCEPT !.requests = <<Fetch(r.url, r.init)>>, !.reads = r.reads]

\* the record of call c once its promise has settled with outcome o
Settle(c, o) == [calls EXCEPT ![c].pc = "settled", ![c].outcome = o]

\* the responses a backend may give
Statuses == {200, 299, 300, 401, 403, 500}

JsonValues ==
    { Null,
      Obj(<<>>),
      Obj([message |-> Str("m1")]),
      Obj([error |-> Str("e1")]),
      Obj([message |-> Str("m1"), error |-> Str("e1")]),
      Obj([message |-> Str(""), error |-> Str("e1")]),
      Obj([message |-> Str("")]) }

Bodies == {UnparseableBody} \cup {JsonBody(j) : j \in JsonValues}

\* the reasons fetch itself may reject with
NetworkErrors == {"Failed to fetch"}

----------------------------------------------------------------------------
(* The operations *)

Init ==
    /\ localStorage \in {<<>>} \cup {(AUTH_TOKEN :> t) : t \in TokenValues}
    /\ forceLogoutFn = NoOp
    /\ registrations = [last |-> NoOp, earlier |-> {}]
    /\ calls = <<>>
    /\ currentView = "dashboard"
    /\ userRole = "admin"
    /\ isAuthenticated = FALSE
    /\ showSignup = FALSE
    /\ loginForm = [email |-> <<>>, password |-> ""]
    /\ signupForm = [fullName |-> "", email |-> "", password |-> ""]
    /\ alerts = ""

\* a registration that keeps the callback already in the slot
setForceLogout_FirstWins(fn) ==
    /\ forceLogoutFn' = IF forceLogoutFn = NoOp THEN fn ELSE forceLogoutFn
    /\ registrations' = [last |-> fn,
                          earlier |-> (registrations.earlier \cup {registrations.last}) \ {fn}]
    /\ UNCHANGED <<localStorage, calls, appVars>>

setForceLogout(fn) ==
    /\ forceLogoutFn' = fn
    /\ registrations' = [last |-> fn,
                          earlier |-> (registrations.earlier \cup {registrations.last}) \ {fn}]
    /\ UNCHANGED <<localStorage, calls, appVars>>

\* something outside the client stores a token under the key
StoreToken(t) ==
    /\ localStorage' = (AUTH_TOKEN :> t)
    /\ UNCHANGED <<forceLogoutFn, registrations, calls, appVars>>

\* a call that joins a pending call of the same method and arguments instead of fetching
Invoke_Deduplicates(m, a) ==
    /\ calls' = Append(calls,
                       IF \E c \in DOMAIN calls :
                              calls[c].pc = "fetch" /\ calls[c].method = m /\ calls[c].args = a
                       THEN [NewCall(m, a, localStorage) EXCEPT !.requests = <<>>]
                       ELSE NewCall(m, a, localStorage))
    /\ UNCHANGED <<localStorage, forceLogoutFn, registrations, appVars>>

\* a caller calls method m with arguments a: the method runs up to its first await
Invoke(m, a) ==
    /\ calls' = Append(calls, NewCall(m, a, localStorage))
    /\ UNCHANGED <<localStorage, forceLogoutFn, registrations, appVars>>

\* fetch resolves for call c with a response, and handleResponse runs on it
ResponseArrives(c, status, body) ==
    /\ calls[c].pc = "fetch"
    /\ LET response == HttpResponse(status, body)
           h == handleResponse(response, localStorage, forceLogoutFn)
       IN  /\ localStorage' = h.storage
           /\ calls' = [Settle(c, h.outcome) EXCEPT ![c].response = response,
                                                    ![c].removes = @ + h.removes,
                                                    ![c].logouts = @ \o h.logouts]
    /\ UNCHANGED <<forceLogoutFn, registrations, appVars>>

\* a rejected fetch answered by fetching again
FetchFails_Retries(c, msg) ==
    /\ calls[c].pc = "fetch"
    /\ Len(calls[c].requests) < 3
    /\ calls' = [calls EXCEPT ![c].requests = Append(@, @[1])]
    /\ UNCHANGED <<localStorage, forceLogoutFn, registrations, appVars>>

\* fetch rejects for call c: the await throws, and the method's promise rejects with it
\* (getCurrentUser logs the error and rethrows it)
FetchFails(c, msg) ==
    /\ calls[c].pc = "fetch"
    /\ calls' = [Settle(c, Rejected(msg)) EXCEPT ![c].response = NetworkError(msg)]
    /\ UNCHANGED <<localStorage, forceLogoutFn, registrations, appVars>>

ProcessPaymentTimer(c) ==
    /\ calls[c].pc = "timer"
    /\ calls[c].method = "processPayment"
    /\ \E r1 \in Randoms, now \in Timestamps, r2 \in Randoms :
            calls' = Settle(c, processPayment(r1, now, r2))
    /\ UNCHANGED <<localStorage, forceLogoutFn, registrations, appVars>>

GetRevenueTimer(c) ==
    /\ calls[c].pc = "timer"
    /\ calls[c].method = "getRevenue"
    /\ \E draws \in [1..(2 * ToLength(RevenueDays(calls[c].args))) -> ReportRandoms] :
            calls' = Settle(c, getRevenue(calls[c].args, draws))
    /\ UNCHANGED <<localStorage, forceLogoutFn, registrations, appVars>>

GetRentalStatusTimer(c) ==
    /\ calls[c].pc = "timer"
    /\ calls[c].method = "getRentalStatus"
    /\ calls' = Settle(c, getRentalStatus)
    /\ UNCHANGED <<localStorage, forceLogoutFn, registrations, appVars>>

GetTopProductsTimer(c) ==
    /\ calls[c].pc = "timer"
    /\ calls[c].method = "getTopProducts"
    /\ calls' = Settle(c, getTopProducts)
    /\ UNCHANGED <<localStorage, forceLogoutFn, registrations, appVars>>

\* the timer of call c fires
TimerFires(c) ==
    /\ c \in DOMAIN calls
    /\ \/ ProcessPaymentTimer(c)
       \/ GetRevenueTimer(c)
       \/ GetRentalStatusTimer(c)
       \/ GetTopProductsTimer(c)

\* the caller has taken the settlement of call c and drops the promise
Release(c) ==
    /\ calls[c].pc = "settled"
    /\ calls' = SubSeq(calls, 1, c - 1) \o SubSeq(calls, c + 1, Len(calls))
    /\ UNCHANGED <<localStorage, forceLogoutFn, registrations, appVars>>

----------------------------------------------------------------------------
(* The App component and its Login and Signup screens.  An event comes from a *)
(* component that is rendered, and a component that unmounts loses its fields. *)

\* what a user may type into the email field of Login, as sequences of characters
Emails ==
    { <<>>,
      <<"a", "d", "m", "i", "n">>,
      <<"a", "d", "m", "i", "n", "@", "x">>,
      <<"b", "a", "d", "m", "i", "n", "@", "x">>,
      <<"A", "d", "m", "i", "n", "@", "x">>,
      <<"a", "d", "m", "@", "i", "n">>,
      <<"b", "o", "b", "@", "x">> }

Passwords == {"", "pw", "wrong"}

FullNames == {"", "Ann"}

SignupEmails == {"", "ann@x.co"}

SignupPasswords == {"", "pw"}

\* the values Navigation may pass to setCurrentView
Views == {"dashboard", "products", "orders", "reports", "pricing", "payments", "settings"}

Roles == {"admin", "customer"}

\* String.prototype.includes
Includes(s, sub) ==
    \E i \in 0..(Len(s) - Len(sub)) : SubSeq(s, i + 1, i + Len(sub)) = sub

\* an <input type="email" required> lets the form submit: something on each side of an @
ValidEmail(s) == \E i \in 2..(Len(s) - 1) : s[i] = "@"

\* the fields of a Login component as it mounts
LoginFields == [email |-> <<>>, password |-> ""]

\* the fields of a Signup component as it mounts
SignupFields == [fullName |-> "", email |-> "", password |-> ""]

\* App.renderContent
renderContent ==
    IF userRole = "customer"
    THEN "CustomerPortal"
    ELSE CASE currentView = "dashboard" -> "Dashboard"
           [] currentView = "products" -> "ProductManagement"
           [] currentView = "orders" -> "OrderManagement"
           [] currentView = "reports" -> "Reports"
           [] currentView = "pricing" -> "AdvancedPricing"
           [] currentView = "payments" -> "PaymentSetupGuide"
           [] OTHER -> "Dashboard"

\* the components App renders
Rendered ==
    IF ~isAuthenticated
    THEN IF showSignup THEN {"Signup"} ELSE {"Login"}
    ELSE {"Navigation", renderContent}
            \cup (IF userRole = "admin" THEN {"NotificationSystem"} ELSE {})

\* App.handleLogin
handleLogin(role) ==
    /\ userRole' = role
    /\ isAuthenticated' = TRUE

\* Login: onChange of the email field
LoginSetEmail(e) ==
    /\ "Login" \in Rendered
    /\ loginForm' = [loginForm EXCEPT !.email = e]
    /\ UNCHANGED <<currentView, userRole, isAuthenticated, showSignup, signupForm, alerts,
                   clientVars>>

\* Login: onChange of the password field
LoginSetPassword(p) ==
    /\ "Login" \in Rendered
    /\ loginForm' = [loginForm EXCEPT !.password = p]
    /\ UNCHANGED <<currentView, userRole, isAuthenticated, showSignup, signupForm, alerts,
                   clientVars>>

\* the browser lets the login form submit: both fields are required, the first an email
LoginFormValid == ValidEmail(loginForm.email) /\ loginForm.password # ""

\* a submit that signs in at the backend before it reports the role
handleSubmit_CallsSignin ==
    /\ "Login" \in Rendered
    /\ LoginFormValid
    /\ handleLogin(IF Includes(loginForm.email, <<"a", "d", "m", "i", "n">>)
                   THEN "admin" ELSE "customer")
    /\ calls' = Append(calls, NewCall("signin", [data |-> SampleData], localStorage))
    /\ loginForm' = LoginFields
    /\ UNCHANGED <<currentView, showSignup, signupForm, alerts,
                   localStorage, forceLogoutFn, registrations>>

\* Login.handleSubmit, the form's onSubmit; App then renders the main screen and Login
\* unmounts
handleSubmit ==
    /\ "Login" \in Rendered
    /\ LoginFormValid
    /\ handleLogin(IF Includes(loginForm.email, <<"a", "d", "m", "i", "n">>)
                   THEN "admin" ELSE "customer")
    /\ loginForm' = LoginFields
    /\ UNCHANGED <<currentView, showSignup, signupForm, alerts, clientVars>>

\* a toggle that can still run after Login has unmounted
onShowSignup_Unmounted ==
    /\ showSignup' = TRUE
    /\ loginForm' = LoginFields
    /\ UNCHANGED <<currentView, userRole, isAuthenticated, signupForm, alerts, clientVars>>

\* Login's "Sign up" button: App's onShowSignup
onShowSignup ==
    /\ "Login" \in Rendered
    /\ showSignup' = TRUE
    /\ loginForm' = LoginFields
    /\ UNCHANGED <<currentView, userRole, isAuthenticated, signupForm, alerts, clientVars>>

\* Signup: onChange of a field
SignupSetField(f, v) ==
    /\ "Signup" \in Rendered
    /\ signupForm' = [signupForm EXCEPT ![f] = v]
    /\ UNCHANGED <<currentView, userRole, isAuthenticated, showSignup, loginForm, alerts,
                   clientVars>>

\* the browser lets the signup form submit: all three fields are required
SignupFormValid == signupForm.fullName # "" /\ signupForm.email # "" /\ signupForm.password # ""

\* a signup that logs the new account in
handleSignup_Authenticates ==
    /\ "Signup" \in Rendered
    /\ SignupFormValid
    /\ alerts' = "Account created for " \o signupForm.fullName \o " (" \o signupForm.email \o ")"
    /\ isAuthenticated' = TRUE
    /\ UNCHANGED <<currentView, userRole, showSignup, loginForm, signupForm, clientVars>>

\* Signup.handleSignup, the form's onSubmit
handleSignup ==
    /\ "Signup" \in Rendered
    /\ SignupFormValid
    /\ alerts' = "Account created for " \o signupForm.fullName \o " (" \o signupForm.email \o ")"
    /\ UNCHANGED <<currentView, userRole, isAuthenticated, showSignup, loginForm, signupForm,
                   clientVars>>

\* Signup's "Login" button: App's onShowLogin
onShowLogin ==
    /\ "Signup" \in Rendered
    /\ showSignup' = FALSE
    /\ signupForm' = SignupFields
    /\ UNCHANGED <<currentView, userRole, isAuthenticated, loginForm, alerts, clientVars>>

\* Navigation calls its setCurrentView prop
setCurrentView(v) ==
    /\ "Navigation" \in Rendered
    /\ currentView' = v
    /\ UNCHANGED <<userRole, isAuthenticated, showSignup, loginForm, signupForm, alerts,
                   clientVars>>

\* Navigation calls its setUserRole prop
setUserRole(r) ==
    /\ "Navigation" \in Rendered
    /\ userRole' = r
    /\ UNCHANGED <<currentView, isAuthenticated, showSignup, loginForm, signupForm, alerts,
                   clientVars>>

\* Navigation calls its onLogout prop
onLogout ==
    /\ "Navigation" \in Rendered
    /\ isAuthenticated' = FALSE
    /\ UNCHANGED <<currentView, userRole, showSignup, loginForm, signupForm, alerts, clientVars>>

----------------------------------------------------------------------------
(* The regimes *)

\* The client with its whole endpoint table, its callers making one call at a time: each
\* waits for the settlement before the next call is made.
Next ==
    \/ \E fn \in Callbacks : setForceLogout(fn)
    \/ \E t \in TokenValues : StoreToken(t)
    \/ \E m \in ApiMethods : \E a \in ArgsOf(m) : calls = <<>> /\ Invoke(m, a)
    \/ \E c \in DOMAIN calls : \E status \in Statuses, body \in Bodies :
            ResponseArrives(c, status, body)
    \/ \E c \in DOMAIN calls : \E msg \in NetworkErrors : FetchFails(c, msg)
    \/ \E c \in DOMAIN calls : TimerFires(c)
    \/ \E c \in DOMAIN calls : Release(c)

Spec == Init /\ [][Next]_vars

\* the calls the demo regime makes in one behaviour
MaxDemoCalls == 2

\* The demo methods alone, their calls overlapping: a call may be made while the timers of
\* earlier ones are still set, and the timers fire in any order.
DemoNext ==
    \/ \E t \in TokenValues : StoreToken(t)
    \/ \E m \in MockMethods : \E a \in ArgsOf(m) : Len(calls) < MaxDemoCalls /\ Invoke(m, a)
    \/ \E c \in DOMAIN calls : TimerFires(c)

DemoSpec == Init /\ [][DemoNext]_vars

\* the calls the report regime makes in one behaviour
MaxReportCalls == 2

\* The three report methods alone, their calls overlapping.
ReportNext ==
    \/ \E t \in TokenValues : StoreToken(t)
    \/ \E m \in MockMethods \ {"processPayment"} : \E a \in ArgsOf(m) :
            Len(calls) < MaxReportCalls /\ Invoke(m, a)
    \/ \E c \in DOMAIN calls : TimerFires(c)

ReportSpec == Init /\ [][ReportNext]_vars

\* every timer that is set fires
LiveReportSpec == ReportSpec /\ \A c \in 1..MaxReportCalls : WF_vars(TimerFires(c))

\* the calls the overlapping regime makes in one behaviour
MaxOverlapCalls == 2

\* the methods called in the overlapping regime
OverlapMethods == {"createRental", "createPayment", "getMyRentals"}

\* the responses given in the overlapping regime
OverlapStatuses == {200, 401, 403}

OverlapBodies == {JsonBody(Obj(<<>>)), JsonBody(Obj([message |-> Str("m1")]))}

\* A few fetching methods, their calls overlapping: the callback is registered before the
\* first call, a call may be made while earlier ones await their responses, and the
\* responses arrive in any order.
OverlapNext ==
    \/ calls = <<>> /\ setForceLogout("cbA")
    \/ \E t \in TokenValues : StoreToken(t)
    \/ \E m \in OverlapMethods : \E a \in ArgsOf(m) :
            Len(calls) < MaxOverlapCalls /\ Invoke(m, a)
    \/ \E c \in DOMAIN calls : \E status \in OverlapStatuses, body \in OverlapBodies :
            ResponseArrives(c, status, body)

OverlapSpec == Init /\ [][OverlapNext]_vars

\* The App alone: what a user can do on the screen that is rendered.
AppNext ==
    \/ \E e \in Emails : LoginSetEmail(e)
    \/ \E p \in Passwords : LoginSetPassword(p)
    \/ handleSubmit
    \/ onShowSignup
    \/ \E v \in FullNames : SignupSetField("fullName", v)
    \/ \E v \in SignupEmails : SignupSetField("email", v)
    \/ \E v \in SignupPasswords : SignupSetField("password", v)
    \/ handleSignup
    \/ onShowLogin
    \/ \E v \in Views : setCurrentView(v)
    \/ \E r \in Roles : setUserRole(r)
    \/ onLogout

AppSpec == Init /\ [][AppNext]_vars

----------------------------------------------------------------------------
(* Properties.  A step "issues" a call when it appends a record to `calls`, and   *)
(* "settles" call c when it takes the record from awaiting fetch to settled.      *)

\* the record appended by this step
Issued == calls'[Len(calls')]

IssuesRequest == Len(calls') = Len(calls) + 1 /\ Issued.requests # <<>>

SettlesFetch(c) ==
    /\ calls[c].pc = "fetch"
    /\ c \in DOMAIN calls'
    /\ calls'[c].pc = "settled"

IsHttp(call) == call.response.kind = "http"

IsAuthFailure(call) == IsHttp(call) /\ call.response.status \in {401, 403}

HasAuthorization(req) == "Authorization" \in DOMAIN req.headers

TokenStored == AUTH_TOKEN \in DOMAIN localStorage

\* the methods whose headers are the literal { 'Content-Type': 'application/json' }
LiteralHeaderMethods ==
    {"generateOTP", "verifyOTP", "signup", "signin", "checkAdmin", "checkUser"}

\* C1, as stated: every request carries "Authorization: Bearer <token>" when a token is
\* stored under 'auth_token' as the method is called, and no Authorization header when
\* none is stored.
C1_EveryRequestCarriesStoredToken ==
    [][IssuesRequest =>
         LET req == Issued.requests[1] IN
         IF TokenStored
         THEN HasAuthorization(req)
              /\ req.headers["Authorization"] = "Bearer " \o localStorage[AUTH_TOKEN]
         ELSE ~HasAuthorization(req)]_vars

\* C1, amended: a request of generateOTP, verifyOTP, signup, signin, checkAdmin or
\* checkUser never carries an Authorization header; a request of any other method carries
\* "Authorization: Bearer <token>" when a non-empty token is stored as the method is
\* called, and no Authorization header when none, or the empty string, is stored.
C1_AuthorizedRequestsCarryStoredToken ==
    [][IssuesRequest =>
         LET req == Issued.requests[1] IN
         IF Issued.method \notin LiteralHeaderMethods
            /\ TokenStored /\ localStorage[AUTH_TOKEN] # ""
         THEN HasAuthorization(req)
              /\ req.headers["Authorization"] = "Bearer " \o localStorage[AUTH_TOKEN]
         ELSE ~HasAuthorization(req)]_vars

\* a request with the stored token in its header, and one of signin without a header
\* while a token is stored
C1_Witness ==
    \E c \in DOMAIN calls :
        /\ calls[c].pc = "fetch"
        /\ calls[c].method = "getMyRentals"
        /\ TokenStored
        /\ HasAuthorization(calls[c].requests[1])
        /\ calls[c].requests[1].headers["Authorization"] = "Bearer tokA"
        /\ localStorage[AUTH_TOKEN] = "tokA"

\* C2: a step that settles a call on a response of status 401 or 403 leaves no token
\* stored and invokes the callback then in the slot exactly once, whatever the body.
C2_AuthFailureClearsTokenAndLogsOutOnce ==
    [][\A c \in DOMAIN calls :
         (SettlesFetch(c) /\ IsAuthFailure(calls'[c])) =>
            /\ AUTH_TOKEN \notin DOMAIN localStorage'
            /\ calls'[c].removes = 1
            /\ calls'[c].logouts = <<forceLogoutFn>>]_vars

\* a 401 with a body that does not parse, handled while a token was stored and cbA
\* registered
C2_Witness ==
    \E c \in DOMAIN calls :
        /\ calls[c].pc = "settled"
        /\ IsAuthFailure(calls[c])
        /\ calls[c].response.status = 401
        /\ ~calls[c].response.body.parsed
        /\ HasAuthorization(calls[c].requests[1])
        /\ calls[c].logouts = <<"cbA">>
        /\ ~TokenStored

\* C3: a call whose response has status 401 or 403 resolves with undefined.
C3_AuthFailureResolvesUndefined ==
    \A c \in DOMAIN calls :
        (calls[c].pc = "settled" /\ IsAuthFailure(calls[c])) =>
            calls[c].outcome = Resolved(Undefined)

C3_Witness ==
    \E c \in DOMAIN calls :
        /\ calls[c].method = "getCurrentUser"
        /\ calls[c].pc = "settled"
        /\ IsAuthFailure(calls[c])
        /\ calls[c].response.status = 403
        /\ calls[c].response.body = JsonBody(Obj([message |-> Str("m1")]))
        /\ calls[c].outcome.kind = "resolved"
        /\ calls[c].outcome.value.type = "undefined"

\* a settled call whose response is neither 2xx nor 401/403 and has a JSON body
IsJsonFailure(call) ==
    /\ call.pc = "settled"
    /\ IsHttp(call)
    /\ call.response.status \notin {401, 403}
    /\ ~(call.response.status \in 200..299)
    /\ call.response.body.parsed

HasField(j, name) == j.type = "object" /\ name \in DOMAIN j.fields

HasText(j, name) == HasField(j, name) /\ j.fields[name] # Str("")

\* C4, as stated: such a call fails with the body's `message` when the body has that
\* field, and with 'Unexpected error' when it has not.
C4_MessageFieldOrFallback ==
    \A c \in DOMAIN calls :
        IsJsonFailure(calls[c]) =>
            LET j == calls[c].response.body.json IN
            /\ calls[c].outcome.kind = "rejected"
            /\ calls[c].outcome.message =
                  IF HasField(j, "message") THEN j.fields["message"].v
                  ELSE "Unexpected error"

\* C4, amended: such a call fails with the body's `message` when that is a non-empty
\* string; otherwise with the body's `error` when that is a non-empty string; otherwise
\* (neither field, only empty ones, or a body that is JSON null) with 'Unexpected error'.
C4_MessageThenErrorThenFallback ==
    \A c \in DOMAIN calls :
        IsJsonFailure(calls[c]) =>
            LET j == calls[c].response.body.json IN
            /\ calls[c].outcome.kind = "rejected"
            /\ HasText(j, "message") => calls[c].outcome.message = j.fields["message"].v
            /\ (~HasText(j, "message") /\ HasText(j, "error")) =>
                    calls[c].outcome.message = j.fields["error"].v
            /\ (~HasText(j, "message") /\ ~HasText(j, "error")) =>
                    calls[c].outcome.message = "Unexpected error"

\* a 500 whose body has an empty `message` and an `error`: the call fails with the error
C4_Witness ==
    \E c \in DOMAIN calls :
        /\ IsJsonFailure(calls[c])
        /\ calls[c].response.status = 500
        /\ calls[c].response.body.json = Obj([message |-> Str(""), error |-> Str("e1")])
        /\ calls[c].outcome = Rejected("e1")

\* C5, as stated: a call whose response body does not parse fails with
\* 'Invalid response format.', whatever the status.
C5_UnparseableBodyAlwaysFails ==
    \A c \in DOMAIN calls :
        (calls[c].pc = "settled" /\ IsHttp(calls[c]) /\ ~calls[c].response.body.parsed) =>
            calls[c].outcome = Rejected("Invalid response format.")

\* C5, amended: a call whose response has a status other than 401 and 403 and a body
\* that does not parse fails with 'Invalid response format.', 2xx or not.
C5_UnparseableBodyFailsUnlessAuthFailure ==
    \A c \in DOMAIN calls :
        (/\ calls[c].pc = "settled"
         /\ IsHttp(calls[c])
         /\ ~IsAuthFailure(calls[c])
         /\ ~calls[c].response.body.parsed) =>
            calls[c].outcome = Rejected("Invalid response format.")

C5_Witness ==
    \E c \in DOMAIN calls :
        /\ calls[c].pc = "settled"
        /\ IsHttp(calls[c])
        /\ calls[c].response.status = 200
        /\ ~calls[c].response.body.parsed
        /\ calls[c].outcome.kind = "rejected"
        /\ calls[c].outcome.message = "Invalid response format."

\* C6: the slot starts as the no-op; a 401/403 invokes the argument of the latest
\* setForceLogout call and nothing else, so no callback registered earlier runs; any
\* other settlement invokes nothing.
C6_OnlyLatestRegistrationIsInvoked ==
    /\ forceLogoutFn = NoOp
    /\ [][\A c \in DOMAIN calls :
            SettlesFetch(c) =>
               IF IsAuthFailure(calls'[c])
               THEN /\ calls'[c].logouts = <<registrations.last>>
                    /\ \A i \in DOMAIN calls'[c].logouts :
                            calls'[c].logouts[i] \notin registrations.earlier
               ELSE calls'[c].logouts = <<>>]_vars

\* cbA was registered, then cbB: a 403 has invoked cbB alone
C6_Witness ==
    \E c \in DOMAIN calls :
        /\ calls[c].pc = "settled"
        /\ IsAuthFailure(calls[c])
        /\ registrations.last = "cbB"
        /\ "cbA" \in registrations.earlier
        /\ forceLogoutFn = "cbB"
        /\ calls[c].logouts = <<"cbB">>

\* what has gone wrong for a settled call, if anything
Failure(call) ==
    \/ call.response.kind = "error"
    \/ IsHttp(call) /\ ~IsAuthFailure(call) /\ ~call.response.body.parsed
    \/ IsHttp(call) /\ ~IsAuthFailure(call) /\ ~(call.response.status \in 200..299)

\* C7: no call issues more than one request; a settled call whose fetch was rejected,
\* whose body did not parse or whose status is neither 2xx nor 401/403 is rejected, and a
\* 401/403 is resolved; a processPayment that did not succeed is rejected; and a settled
\* call is never settled again.
C7_NoRetryEveryFailureRejectsOnce ==
    /\ [](\A c \in DOMAIN calls :
            /\ Len(calls[c].requests) <= 1
            /\ calls[c].pc = "settled" =>
                  /\ calls[c].outcome.kind \in {"resolved", "rejected"}
                  /\ Failure(calls[c]) => calls[c].outcome.kind = "rejected"
                  /\ IsAuthFailure(calls[c]) => calls[c].outcome.kind = "resolved"
                  /\ (calls[c].method = "processPayment"
                      /\ calls[c].outcome # Rejected("Payment failed. Please try again.")) =>
                        calls[c].outcome.kind = "resolved")
    /\ [][\A c \in DOMAIN calls :
            (calls[c].pc = "settled" /\ Len(calls') = Len(calls)) => calls'[c] = calls[c]]_vars

\* a fetch that was rejected: one request, one rejection
C7_Witness ==
    \E c \in DOMAIN calls :
        /\ calls[c].pc = "settled"
        /\ calls[c].response = NetworkError("Failed to fetch")
        /\ Len(calls[c].requests) = 1
        /\ calls[c].outcome = Rejected("Failed to fetch")

StatusUpdateMethods == {"updateRentalStatus", "updateInvoiceStatus", "updatePaymentStatus"}

\* the resource a status update addresses
StatusResource(m) ==
    CASE m = "updateRentalStatus" -> "rental"
      [] m = "updateInvoiceStatus" -> "invoice"
      [] m = "updatePaymentStatus" -> "payment"

\* C8: updateRentalStatus, updateInvoiceStatus and updatePaymentStatus each issue one PUT
\* to {base}/<resource>/{id}/status with the body {"status": status} and the authorized
\* headers, whatever the status value.
C8_StatusUpdatesForwardVerbatim ==
    [][(Len(calls') = Len(calls) + 1 /\ Issued.method \in StatusUpdateMethods) =>
         /\ Len(Issued.requests) = 1
         /\ Issued.pc = "fetch"
         /\ LET req == Issued.requests[1]
                a == Issued.args
            IN  /\ req.method = "PUT"
                /\ req.url = API_BASE_URL \o "/" \o StatusResource(Issued.method) \o "/"
                                \o a.id \o "/status"
                /\ req.body = <<"{\"status\":\"" \o a.status.v \o "\"}">>
                /\ req.headers["Content-Type"] = "application/json"
                /\ IF TokenStored /\ localStorage[AUTH_TOKEN] # ""
                   THEN /\ DOMAIN req.headers = {"Content-Type", "Authorization"}
                        /\ req.headers["Authorization"] = "Bearer " \o localStorage[AUTH_TOKEN]
                   ELSE DOMAIN req.headers = {"Content-Type"}]_vars

\* the example of the specification, and a status outside every enumeration
C8_Witness ==
    \E c \in DOMAIN calls :
        /\ calls[c].method = "updateRentalStatus"
        /\ calls[c].args = [id |-> "r1", status |-> Str("CONFIRMED")]
        /\ calls[c].requests =
              <<[method |-> "PUT",
                 url |-> "http://localhost:5000/api/rental/r1/status",
                 headers |-> ("Content-Type" :> "application/json")
                                @@ ("Authorization" :> "Bearer tokA"),
                 body |-> <<"{\"status\":\"CONFIRMED\"}">>]>>

\* the shape TXN_<timestamp>_<random>: digits, then at most nine characters of 0-9a-z
TransactionIdShapes ==
    {"TXN_" \o ts \o "_" \o sfx :
        ts \in {"1730000000000", "1730000002000"},
        sfx \in {"", "i", "3llllllll", "3mw97rxp2"}}

PaymentSucceeded(o) ==
    /\ o.kind = "resolved"
    /\ o.value.type = "object"
    /\ DOMAIN o.value.fields = {"success", "transactionId", "message"}
    /\ o.value.fields["success"] = Bool(TRUE)
    /\ o.value.fields["transactionId"].type = "string"
    /\ o.value.fields["transactionId"].v \in TransactionIdShapes
    /\ o.value.fields["message"].type = "string"

PaymentFailed(o) == o = Rejected("Payment failed. Please try again.")

SettlesTimer(c) ==
    /\ calls[c].pc = "timer"
    /\ c \in DOMAIN calls'
    /\ calls'[c].pc = "settled"

\* C9: a processPayment call issues no request, reads and removes no token and invokes
\* no callback; the step that settles it changes neither the storage nor the slot; and it
\* settles either with {success: true, transactionId: TXN_<timestamp>_<random>, message}
\* or with the failure 'Payment failed. Please try again.'
C9_ProcessPaymentIsLocal ==
    /\ [](\A c \in DOMAIN calls :
            calls[c].method = "processPayment" =>
               /\ calls[c].requests = <<>>
               /\ calls[c].reads = 0
               /\ calls[c].removes = 0
               /\ calls[c].logouts = <<>>
               /\ calls[c].response = NoResponse
               /\ calls[c].pc = "settled" =>
                     PaymentSucceeded(calls[c].outcome) \/ PaymentFailed(calls[c].outcome))
    /\ [][\A c \in DOMAIN calls :
            (calls[c].method = "processPayment" /\ SettlesTimer(c)) =>
                UNCHANGED <<localStorage, forceLogoutFn>>]_vars

\* both outcomes: one call has succeeded and another has failed
C9_Witness ==
    \E c, d \in DOMAIN calls :
        /\ calls[c].method = "processPayment"
        /\ calls[d].method = "processPayment"
        /\ calls[c].pc = "settled"
        /\ calls[d].pc = "settled"
        /\ PaymentSucceeded(calls[c].outcome)
        /\ calls[c].outcome.value.fields["transactionId"].v = "TXN_1730000002000_3mw97rxp2"
        /\ PaymentFailed(calls[d].outcome)

ReportMethods == {"getRevenue", "getRentalStatus", "getTopProducts"}

ResolvedWithData(o) ==
    /\ o.kind = "resolved"
    /\ o.value.type = "object"
    /\ DOMAIN o.value.fields = {"data"}
    /\ o.value.fields["data"].type = "array"

IsReportCall(c) == c \in DOMAIN calls /\ calls[c].method \in ReportMethods

\* C10: a call of getRevenue, getRentalStatus or getTopProducts issues no request, reads
\* and removes no token and invokes no callback; the step that settles it changes neither
\* the storage nor the slot; it never fails; and it is eventually resolved with a
\* {data: [...]} value.
C10_ReportsAlwaysResolve ==
    /\ [](\A c \in DOMAIN calls :
            calls[c].method \in ReportMethods =>
               /\ calls[c].requests = <<>>
               /\ calls[c].reads = 0
               /\ calls[c].removes = 0
               /\ calls[c].logouts = <<>>
               /\ calls[c].response = NoResponse
               /\ calls[c].outcome.kind # "rejected"
               /\ calls[c].pc = "settled" => ResolvedWithData(calls[c].outcome))
    /\ [][\A c \in DOMAIN calls :
            (calls[c].method \in ReportMethods /\ SettlesTimer(c)) =>
                UNCHANGED <<localStorage, forceLogoutFn>>]_vars
    /\ \A c \in 1..MaxReportCalls :
            [](IsReportCall(c) => <>(IsReportCall(c) /\ ResolvedWithData(calls[c].outcome)))

\* a getRevenue over a day and a half, called with no token stored, resolved with two
\* items; and one over an invalid date resolved with none
C10_Witness ==
    \E c, d \in DOMAIN calls :
        /\ calls[c].method = "getRevenue"
        /\ calls[c].args = [startDate |-> "2024-01-01", endDate |-> "2024-01-02T12:00Z"]
        /\ calls[c].pc = "settled"
        /\ ResolvedWithData(calls[c].outcome)
        /\ Len(calls[c].outcome.value.fields["data"].items) = 2
        /\ calls[c].outcome.value.fields["data"].items[2].fields["date"] = Str("2024-01-02")
        /\ calls[d].method = "getRevenue"
        /\ calls[d].args = [startDate |-> "soon", endDate |-> "2024-01-01"]
        /\ calls[d].pc = "settled"
        /\ calls[d].outcome = Resolved(Obj([data |-> Arr(<<>>)]))
        /\ ~TokenStored

\* a pending call of the method and arguments of the call this step issues
IssuesDuplicate ==
    /\ Len(calls') = Len(calls) + 1
    /\ \E c \in DOMAIN calls :
            /\ calls[c].pc = "fetch"
            /\ calls[c].method = Issued.method
            /\ calls[c].args = Issued.args

\* C11: a call made while a call of the same method and arguments is pending issues a
\* request of its own and leaves the pending calls as they are; the step that settles a
\* call settles it from the response to its own request and changes no other call,
\* whichever of the overlapping calls is answered first.
C11_NoDeduplicationOrLocking ==
    /\ [][IssuesDuplicate =>
            /\ SubSeq(calls', 1, Len(calls)) = calls
            /\ Issued.pc = "fetch"
            /\ Len(Issued.requests) = 1
            /\ Issued.response = NoResponse]_vars
    /\ [][\A c \in DOMAIN calls :
            SettlesFetch(c) =>
               /\ \A d \in DOMAIN calls \ {c} : calls'[d] = calls[d]
               /\ calls'[c].requests = calls[c].requests
               /\ calls[c].response = NoResponse
               /\ (IsHttp(calls'[c]) /\ calls'[c].response.status = 200) =>
                     calls'[c].outcome = Resolved(calls'[c].response.body.json)]_vars

\* two createRental calls with the same data, each with its request, the second answered
\* while the first still waits
C11_Witness ==
    /\ Len(calls) = 2
    /\ calls[1].method = "createRental"
    /\ calls[2].method = "createRental"
    /\ calls[1].args = calls[2].args
    /\ Len(calls[1].requests) = 1
    /\ Len(calls[2].requests) = 1
    /\ calls[1].pc = "fetch"
    /\ calls[2].pc = "settled"
    /\ calls[2].outcome = Resolved(Obj([message |-> Str("m1")]))

\* the emails of Emails that contain "admin"
AdminEmails ==
    { <<"a", "d", "m", "i", "n">>,
      <<"a", "d", "m", "i", "n", "@", "x">>,
      <<"b", "a", "d", "m", "i", "n", "@", "x">> }

\* this step authenticates the user
LogsIn == ~isAuthenticated /\ isAuthenticated'

\* C12: the step that submits the login form calls no method of the client, issues no
\* request and touches neither the token nor the callback slot; it sets the role to
\* "admin" exactly when the typed email contains "admin" and to "customer" otherwise,
\* and leaves the App authenticated on its main screen; and the form can be submitted
\* with any email and any password the browser lets through.
C12_LoginInfersRoleFromEmail ==
    /\ [][LogsIn =>
            /\ UNCHANGED clientVars
            /\ userRole' = IF loginForm.email \in AdminEmails THEN "admin" ELSE "customer"
            /\ isAuthenticated'
            /\ "Navigation" \in Rendered']_vars
    /\ []((/\ "Login" \in Rendered
           /\ loginForm.email \in Emails \ {<<>>, <<"a", "d", "m", "i", "n">>}
           /\ loginForm.password \in Passwords \ {""}) => ENABLED handleSubmit)

\* authenticated as a customer on the first view, no call ever made: the login of an
\* email without "admin" in it
C12_Witness ==
    /\ isAuthenticated
    /\ userRole = "customer"
    /\ currentView = "dashboard"
    /\ "CustomerPortal" \in Rendered
    /\ calls = <<>>

\* the resource of each 'my' operation of the endpoint table
MyResource ==
    ("getMyRentals" :> "rental") @@ ("getMyQuotations" :> "quotation")
        @@ ("getMyPayments" :> "payment") @@ ("getMyNotifications" :> "notification")
        @@ ("getMyPickups" :> "pickup") @@ ("getMyRentalReturns" :> "rental-return")

\* C13, as stated: every 'my' operation issues a GET to {base}/<resource>/my, and the
\* user delete operation issues a DELETE to {base}/auth/users.
C13_EndpointTablePaths ==
    [][IssuesRequest =>
         LET req == Issued.requests[1] IN
         /\ Issued.method \in DOMAIN MyResource =>
               /\ req.method = "GET"
               /\ req.url = API_BASE_URL \o "/" \o MyResource[Issued.method] \o "/my"
         /\ Issued.method = "deleteUser" =>
               /\ req.method = "DELETE"
               /\ req.url = API_BASE_URL \o "/auth/users"]_vars

\* the requests of getMyNotifications and of deleteUser as the client issues them
C13_Witness ==
    \E c \in DOMAIN calls :
        \/ /\ calls[c].method = "getMyNotifications"
           /\ calls[c].requests[1].method = "GET"
           /\ calls[c].requests[1].url = "http://localhost:5000/api/notification"
        \/ /\ calls[c].method = "deleteUser"
           /\ calls[c].requests[1].method = "DELETE"
           /\ calls[c].requests[1].url = "http://localhost:5000/api/auth/user"
           /\ calls[c].requests[1].body = <<"{\"userId\":\"r1\"}">>

\* this step is one of the client: a call is made, settled or dropped, or a callback
\* registered
ClientStep == calls' # calls \/ forceLogoutFn' # forceLogoutFn \/ registrations' # registrations

\* C14: the client never writes the token.  A step that settles a call on anything but a
\* 401/403 (a 2xx, another status, a body that does not parse, a rejected fetch) leaves
\* the storage as it is, removes nothing and invokes no callback; no step of the client
\* leaves a token stored that was not stored before it; and a request issued while no
\* token is stored carries no Authorization header.
C14_ClientOnlyReadsOrRemovesToken ==
    [][/\ \A c \in DOMAIN calls :
            (SettlesFetch(c) /\ ~IsAuthFailure(calls'[c])) =>
               /\ localStorage' = localStorage
               /\ calls'[c].removes = 0
               /\ calls'[c].logouts = <<>>
       /\ ClientStep =>
            \/ localStorage' = localStorage
            \/ AUTH_TOKEN \notin DOMAIN localStorage'
       /\ (IssuesRequest /\ ~TokenStored) => ~HasAuthorization(Issued.requests[1])]_vars

\* a signin answered 200 with a JSON body while no token is stored: it resolves with the
\* body and still no token is stored
C14_Witness ==
    \E c \in DOMAIN calls :
        /\ calls[c].method = "signin"
        /\ calls[c].pc = "settled"
        /\ IsHttp(calls[c])
        /\ calls[c].response.status = 200
        /\ calls[c].outcome = Resolved(Obj([message |-> Str("m1")]))
        /\ calls[c].logouts = <<>>
        /\ calls[c].removes = 0
        /\ ~TokenStored

\* the calls answered with a 401 or a 403 so far
AuthFailures == {c \in DOMAIN calls : calls[c].pc = "settled" /\ IsAuthFailure(calls[c])}

\* C15: with several requests in flight, every call answered 401 or 403 has invoked the
\* callback once, so N such responses give N invocations; the step that handles such a
\* response leaves no token stored, also when none was left to remove; and it changes no
\* request already issued, so a request issued while the token was stored keeps the
\* Bearer header it was issued with.
C15_OneLogoutPerAuthFailure ==
    /\ [](\A c \in DOMAIN calls :
            /\ c \in AuthFailures => Len(calls[c].logouts) = 1 /\ calls[c].removes = 1
            /\ c \notin AuthFailures => calls[c].logouts = <<>>)
    /\ [][\A c \in DOMAIN calls :
            (SettlesFetch(c) /\ IsAuthFailure(calls'[c])) =>
               /\ AUTH_TOKEN \notin DOMAIN localStorage'
               /\ calls'[c].logouts = <<forceLogoutFn>>
               /\ \A d \in DOMAIN calls : calls'[d].requests = calls[d].requests]_vars

\* two calls issued with the token stored, both answered 401/403: the callback invoked
\* for each, the second after the token was gone, its request still carrying the token
C15_Witness ==
    /\ Len(calls) = 2
    /\ AuthFailures = {1, 2}
    /\ calls[1].logouts = <<"cbA">>
    /\ calls[2].logouts = <<"cbA">>
    /\ calls[1].method = "getMyRentals"
    /\ calls[2].method = "getMyRentals"
    /\ HasAuthorization(calls[1].requests[1])
    /\ HasAuthorization(calls[2].requests[1])
    /\ calls[1].requests[1].headers["Authorization"] = "Bearer tokA"
    /\ calls[2].requests[1].headers["Authorization"] = "Bearer tokA"
    /\ calls[1].response.status = 401
    /\ calls[2].response.status = 403
    /\ ~TokenStored

\* this step calls getCurrentUser
IssuesGetCurrentUser == Len(calls') = Len(calls) + 1 /\ Issued.method = "getCurrentUser"

\* C16: getCurrentUser called with no token stored (none, or the empty string, which
\* `!token` takes for none) resolves at once with {user: null}, with no request, no
\* removal and no callback invoked; called with a token stored it issues exactly one GET
\* to {base}/auth/me with the Bearer header, and then settles as handleResponse settles
\* the response, or fails with the reason fetch failed with.
C16_GetCurrentUserWithoutToken ==
    /\ [][IssuesGetCurrentUser =>
            IF ~TokenStored \/ localStorage[AUTH_TOKEN] = ""
            THEN /\ Issued.pc = "settled"
                 /\ Issued.outcome = Resolved(Obj([user |-> Null]))
                 /\ Issued.requests = <<>>
                 /\ Issued.logouts = <<>>
                 /\ Issued.removes = 0
                 /\ UNCHANGED <<localStorage, forceLogoutFn>>
            ELSE /\ Issued.pc = "fetch"
                 /\ Issued.requests =
                        << [url |-> "http://localhost:5000/api/auth/me",
                            method |-> "GET",
                            headers |-> ("Content-Type" :> "application/json")
                                 @@ ("Authorization" :> "Bearer " \o localStorage[AUTH_TOKEN]),
                            body |-> <<>>] >>]_vars
    /\ [][\A c \in DOMAIN calls :
            (calls[c].method = "getCurrentUser" /\ SettlesFetch(c)) =>
               /\ calls'[c].requests = calls[c].requests
               /\ IF IsHttp(calls'[c])
                  THEN LET h == handleResponse(calls'[c].response, localStorage,
                                               forceLogoutFn)
                       IN  /\ calls'[c].outcome = h.outcome
                           /\ calls'[c].logouts = h.logouts
                           /\ localStorage' = h.storage
                  ELSE /\ calls'[c].outcome = Rejected(calls'[c].response.message)
                       /\ calls'[c].logouts = <<>>
                       /\ localStorage' = localStorage]_vars

\* getCurrentUser called with no token stored: resolved with {user: null}, no request
C16_Witness ==
    \E c \in DOMAIN calls :
        /\ calls[c].method = "getCurrentUser"
        /\ calls[c].pc = "settled"
        /\ calls[c].requests = <<>>
        /\ calls[c].response = NoResponse
        /\ calls[c].outcome.kind = "resolved"
        /\ calls[c].outcome.value.fields["user"] = Null
        /\ calls[c].logouts = <<>>
        /\ ~TokenStored

\* the components of the main screen
MainComponents ==
    {"Navigation", "NotificationSystem", "CustomerPortal", "Dashboard", "ProductManagement",
     "OrderManagement", "Reports", "AdvancedPricing", "PaymentSetupGuide"}

\* C17: the App starts unauthenticated on the login screen; the navigation and the main
\* content are rendered only while isAuthenticated is true, and the login and signup
\* screens only while it is false; the only step that sets isAuthenticated to true is a
\* submit of a valid login form; and no step taken on the signup screen, and no step
\* that toggles showSignup, authenticates the user.
C17_OnlyLoginAuthenticates ==
    /\ ~isAuthenticated /\ Rendered = {"Login"}
    /\ [](/\ (Rendered \cap MainComponents # {}) => isAuthenticated
          /\ (Rendered \cap {"Login", "Signup"} # {}) => ~isAuthenticated)
    /\ [][/\ LogsIn => (Rendered = {"Login"} /\ LoginFormValid /\ ~showSignup)
          /\ "Signup" \in Rendered => ~isAuthenticated'
          /\ showSignup' # showSignup => ~isAuthenticated']_vars

\* the signup form submitted (the alert shown) and the user back on the login screen,
\* still unauthenticated
C17_Witness ==
    /\ alerts = "Account created for Ann (ann@x.co)"
    /\ ~isAuthenticated
    /\ ~showSignup
    /\ Rendered = {"Login"}

\* this step logs the user out
LogsOut == isAuthenticated /\ ~isAuthenticated'

\* C18: isAuthenticated implies that showSignup is false; and a logout lands on the login
\* screen with userRole and currentView as they were before it.
C18_LogoutLandsOnLogin ==
    /\ [](isAuthenticated => ~showSignup)
    /\ [][LogsOut =>
            /\ Rendered' = {"Login"}
            /\ ~showSignup'
            /\ userRole' = userRole
            /\ currentView' = currentView]_vars

\* logged out, after a visit to the signup screen, a login, a change of view and a switch
\* of role: on the login screen, with the view and the role chosen before the logout
C18_Witness ==
    /\ alerts # ""
    /\ ~isAuthenticated
    /\ Rendered = {"Login"}
    /\ currentView = "reports"
    /\ userRole = "customer"

====
